---------------------------- MODULE Spec2Model ----------------------------
(***************************************************************************)
(* Model of the prism-ai client library (src/src/index.ts): the three      *)
(* resource clients returned by pai(), the requests they hand to fetch,    *)
(* and what each call settles with.                                        *)
(*                                                                         *)
(* A call is an async function: it runs to its first await in one step,    *)
(* and each later step resumes it with what the awaited promise settled    *)
(* with.  JavaScript values are records with a type tag, strings are TLA+  *)
(* strings, JSON text is a sequence of tokens.                             *)
(***************************************************************************)
EXTENDS Integers, Sequences, FiniteSets, TLC

VARIABLES
    api_key,    \* the credential pai() was called with
    headers,    \* this.headers of each client
    api_url,    \* this.api_url of each client
    pc,         \* where each call is: "idle", "fetch", "json", "done"
    args,       \* the arguments each call was invoked with
    sent,       \* the requests each call has handed to fetch, in order
    response,   \* what each call's fetch settled with
    result,     \* what each call's promise settled with
    jsonCalls,  \* how many times each call has called response.json()
    unread,     \* chunks still queued in the stream a call returned
    observed    \* chunks the caller has read from that stream, in order

vars == <<api_key, headers, api_url, pc, args, sent, response, result,
          jsonCalls, unread, observed>>

(***************************************************************************)
(* Bounds.                                                                 *)
(***************************************************************************)
NumCalls == 2       \* calls that may be in flight together
MaxChunks == 2      \* chunks in a streamed body

Calls == 1..NumCalls
Clients == {"KnowledgeBase", "Knowledge", "Reply"}

(***************************************************************************)
(* JavaScript values.                                                      *)
(***************************************************************************)
Undefined == [t |-> "undefined", n |-> 0, s |-> "", b |-> FALSE]
Num(n) == [t |-> "number", n |-> n, s |-> "", b |-> FALSE]
Str(s) == [t |-> "string", n |-> 0, s |-> s, b |-> FALSE]
Bool(b) == [t |-> "boolean", n |-> 0, s |-> "", b |-> b]

\* ToBoolean, as `if (x)` and `!x` apply it.
Truthy(v) ==
    CASE v.t = "undefined" -> FALSE
      [] v.t = "number" -> v.n # 0
      [] v.t = "string" -> v.s # ""
      [] v.t = "boolean" -> v.b

\* String concatenation with `+`, as the method paths use it.
ToStr(v) ==
    CASE v.t = "undefined" -> "undefined"
      [] v.t = "number" -> ToString(v.n)
      [] v.t = "string" -> v.s
      [] v.t = "boolean" -> IF v.b THEN "true" ELSE "false"

(***************************************************************************)
(* JSON.  An object is the sequence of its <<key, value>> properties in    *)
(* insertion order; JSON text is a sequence of tokens.                     *)
(***************************************************************************)
Quote(s) == "\"" \o s \o "\""

Literal(v) ==
    CASE v.t = "number" -> ToString(v.n)
      [] v.t = "string" -> Quote(v.s)
      [] v.t = "boolean" -> IF v.b THEN "true" ELSE "false"
      [] v.t = "undefined" -> "undefined"

\* JSON.stringify leaves out the properties whose value is undefined.
RECURSIVE Members(_)
Members(obj) ==
    IF obj = <<>> THEN <<>>
    ELSE LET p == Head(obj)
             rest == Members(Tail(obj))
         IN  IF p[2].t = "undefined" THEN rest
             ELSE <<Quote(p[1]), ":", Literal(p[2])>>
                  \o (IF rest = <<>> THEN <<>> ELSE <<",">> \o rest)

JSONstringify(obj) == <<"{">> \o Members(obj) \o <<"}">>

\* The keys and values JSON text of the model is made of.
JsonKeys ==
    {"name", "url", "text", "recursion", "max_recursion", "only_base_url",
     "user_prompt", "conversation_id", "knowledge_base", "max_tokens",
     "num_results", "model", "id", "owner_id", "detail"}

JsonValues ==
    {Num(n) : n \in {0, 1, 3, 5, 7, 10, 256}}
    \cup {Str(s) : s \in {"", "kb1", "doc", "hi", "hello", "m1", "Not found.",
                          "not a url", "example.com",
                          "https://example.com/docs", "mailto:a@b.c"}}
    \cup {Bool(b) : b \in BOOLEAN}

IsKeyToken(tok) == \E k \in JsonKeys : Quote(k) = tok
IsValueToken(tok) == \E v \in JsonValues : Literal(v) = tok
KeyOf(tok) == CHOOSE k \in JsonKeys : Quote(k) = tok
ValueOf(tok) == CHOOSE v \in JsonValues : Literal(v) = tok

\* member ("," member)*, member = string ":" value
RECURSIVE IsMembers(_)
IsMembers(toks) ==
    /\ Len(toks) >= 3
    /\ IsKeyToken(toks[1])
    /\ toks[2] = ":"
    /\ IsValueToken(toks[3])
    /\ \/ Len(toks) = 3
       \/ /\ Len(toks) > 4
          /\ toks[4] = ","
          /\ IsMembers(SubSeq(toks, 5, Len(toks)))

\* A later property with the same key replaces the earlier one's value.
Put(obj, k, v) ==
    IF \E i \in 1..Len(obj) : obj[i][1] = k
    THEN [i \in 1..Len(obj) |-> IF obj[i][1] = k THEN <<k, v>> ELSE obj[i]]
    ELSE Append(obj, <<k, v>>)

RECURSIVE ParseMembers(_, _)
ParseMembers(toks, acc) ==
    IF Len(toks) < 3 THEN acc
    ELSE ParseMembers(SubSeq(toks, 5, Len(toks)),
                      Put(acc, KeyOf(toks[1]), ValueOf(toks[3])))

IsJSON(text) ==
    /\ Len(text) >= 2
    /\ text[1] = "{"
    /\ text[Len(text)] = "}"
    /\ \/ Len(text) = 2
       \/ IsMembers(SubSeq(text, 2, Len(text) - 1))

JSONparse(text) == ParseMembers(SubSeq(text, 2, Len(text) - 1), <<>>)

HasKey(obj, k) == \E i \in 1..Len(obj) : obj[i][1] = k

\* A body in chunks, read to its end.
RECURSIVE Concat(_)
Concat(chunks) ==
    IF chunks = <<>> THEN <<>> ELSE Head(chunks) \o Concat(Tail(chunks))

(***************************************************************************)
(* new URL(str), on the strings the model passes it.                       *)
(***************************************************************************)
URLInputs ==
    {"", "not a url", "example.com", "https://example.com/docs", "mailto:a@b.c"}

ParseableURLs == {"https://example.com/docs", "mailto:a@b.c"}

isValidURL(str) == str \in ParseableURLs


(***************************************************************************)
(* Responses, requests and results.                                        *)
(***************************************************************************)
NoResponse ==
    [type |-> "none", status |-> 0, statusText |-> "", hasBody |-> FALSE,
     chunks |-> <<>>]

\* fetch rejecting: the network failed and there is no response.
NetworkError ==
    [type |-> "error", status |-> 0, statusText |-> "", hasBody |-> FALSE,
     chunks |-> <<>>]

\* A response; hasBody is FALSE when response.body is null.
Response(status, statusText, hasBody, chunks) ==
    [type |-> "basic", status |-> status, statusText |-> statusText,
     hasBody |-> hasBody, chunks |-> chunks]

\* response.ok
ok(r) == r.status >= 200 /\ r.status <= 299

KbDoc == <<<<"id", Num(1)>>, <<"owner_id", Num(5)>>, <<"name", Str("kb1")>>>>
ErrorDoc == <<<<"detail", Str("Not found.")>>>>
Docs == {KbDoc, ErrorDoc}

\* The text of a document as the server may chunk it.
JsonBodies(doc) ==
    LET text == JSONstringify(doc)
    IN  {<<text>>, <<SubSeq(text, 1, 4), SubSeq(text, 5, Len(text))>>}

\* Bodies that are not JSON: up to MaxChunks chunks of plain text.
TextChunks == {<<"Hel">>, <<"lo">>}
TextBodies == UNION {[1..n -> TextChunks] : n \in 0..MaxChunks}

Responses ==
    {Response(200, "OK", TRUE, b) : b \in JsonBodies(KbDoc) \cup TextBodies}
    \cup {Response(204, "No Content", FALSE, <<>>)}
    \cup {Response(404, "Not Found", TRUE, b) : b \in JsonBodies(ErrorDoc)}
    \cup {Response(404, "Not Found", FALSE, <<>>)}

FetchOutcomes == {NetworkError} \cup Responses

Pending ==
    [state |-> "pending", type |-> "", message |-> "", value |-> <<>>,
     response |-> NoResponse]

ReturnError(message) ==
    [state |-> "fulfilled", type |-> "Error", message |-> message,
     value |-> <<>>, response |-> NoResponse]

ReturnJson(value) ==
    [state |-> "fulfilled", type |-> "json", message |-> "", value |-> value,
     response |-> NoResponse]

ReturnResponse(r) ==
    [state |-> "fulfilled", type |-> "Response", message |-> "",
     value |-> <<>>, response |-> r]

ReturnStream(r) ==
    [state |-> "fulfilled", type |-> "StreamingTextResponse", message |-> "",
     value |-> <<>>, response |-> r]

Reject(type, message) ==
    [state |-> "rejected", type |-> type, message |-> message,
     value |-> <<>>, response |-> NoResponse]

Request(method, url, hdrs, body) ==
    [method |-> method, url |-> url, headers |-> hdrs, body |-> body]

NoArgs ==
    [op |-> "", name |-> Undefined, kb_id |-> Undefined,
     knowledge_id |-> Undefined, method |-> Undefined, url |-> Undefined,
     text |-> Undefined, recursion |-> Undefined, max_recursion |-> Undefined,
     only_base_url |-> Undefined, prompt |-> Undefined,
     conversation_id |-> Undefined, knowledge_base |-> Undefined,
     max_tokens |-> Undefined, num_results |-> Undefined, model |-> Undefined]

(***************************************************************************)
(* pai() and BaseClient's constructor.                                     *)
(***************************************************************************)
Credentials == {"key-A", "key-B"}

BaseClient(key, url) ==
    [headers |-> [ContentType |-> "application/json",
                  Accept |-> "application/json",
                  Authorization |-> key],
     api_url |-> url]

pai(key) == [cl \in Clients |-> BaseClient(key, "https://api.prism-ai.ch")]

Init ==
    /\ api_key \in Credentials
    /\ headers = [cl \in Clients |-> pai(api_key)[cl].headers]
    /\ api_url = [cl \in Clients |-> pai(api_key)[cl].api_url]
    /\ pc = [c \in Calls |-> "idle"]
    /\ args = [c \in Calls |-> NoArgs]
    /\ sent = [c \in Calls |-> <<>>]
    /\ response = [c \in Calls |-> NoResponse]
    /\ result = [c \in Calls |-> Pending]
    /\ jsonCalls = [c \in Calls |-> 0]
    /\ unread = [c \in Calls |-> <<>>]
    /\ observed = [c \in Calls |-> <<>>]

\* A call hands one request to fetch and waits for it.
Fetch(c, a, req) ==
    /\ pc[c] = "idle"
    /\ args' = [args EXCEPT ![c] = a]
    /\ sent' = [sent EXCEPT ![c] = Append(@, req)]
    /\ pc' = [pc EXCEPT ![c] = "fetch"]
    /\ UNCHANGED <<api_key, headers, api_url, response, result, jsonCalls,
                   unread, observed>>

\* A call throws before its first await: its promise is rejected.
Throw(c, a, type, message) ==
    /\ pc[c] = "idle"
    /\ args' = [args EXCEPT ![c] = a]
    /\ result' = [result EXCEPT ![c] = Reject(type, message)]
    /\ pc' = [pc EXCEPT ![c] = "done"]
    /\ UNCHANGED <<api_key, headers, api_url, sent, response, jsonCalls,
                   unread, observed>>

(***************************************************************************)
(* KnowledgeBaseClient                                                     *)
(***************************************************************************)
KnowledgeBaseCreatePath(base) == base \o "/users/knowledge_base/"
KnowledgeBaseGetPath(base, kb_id) ==
    base \o "/users/knowledge_base/" \o ToStr(kb_id) \o "/"
\* delete pointed at the path get uses.
KnowledgeBaseDeletePathUsers(base, kb_id) ==
    base \o "/users/knowledge_base/" \o ToStr(kb_id) \o "/"

KnowledgeBaseDeletePath(base, kb_id) ==
    base \o "/knowledge_base/" \o ToStr(kb_id) \o "/"

KnowledgeBaseCreate(c, name) ==
    Fetch(c, [NoArgs EXCEPT !.op = "KnowledgeBase.create", !.name = name],
          Request("POST", KnowledgeBaseCreatePath(api_url["KnowledgeBase"]),
                  headers["KnowledgeBase"], JSONstringify(<<<<"name", name>>>>)))

KnowledgeBaseGet(c, kb_id) ==
    Fetch(c, [NoArgs EXCEPT !.op = "KnowledgeBase.get", !.kb_id = kb_id],
          Request("GET", KnowledgeBaseGetPath(api_url["KnowledgeBase"], kb_id),
                  headers["KnowledgeBase"], <<>>))

KnowledgeBaseDelete(c, kb_id) ==
    Fetch(c, [NoArgs EXCEPT !.op = "KnowledgeBase.delete", !.kb_id = kb_id],
          Request("DELETE",
                  KnowledgeBaseDeletePath(api_url["KnowledgeBase"], kb_id),
                  headers["KnowledgeBase"], <<>>))

(***************************************************************************)
(* KnowledgeClient                                                         *)
(***************************************************************************)
\* The switch on method with the text check as `text === undefined`.
KnowledgeCreateErrorEmptyText(a) ==
    CASE a.method = Str("url") ->
           IF ~Truthy(a.url) \/ ~isValidURL(ToStr(a.url))
           THEN "Invalid or missing URL." ELSE ""
      [] a.method = Str("text") ->
           IF a.text = Undefined THEN "Missing text." ELSE ""
      [] OTHER -> "Invalid method. Must be 'url', 'text', or 'path'."

\* The switch on method: which branch throws, and with what message.
KnowledgeCreateError(a) ==
    CASE a.method = Str("url") ->
           IF ~Truthy(a.url) \/ ~isValidURL(ToStr(a.url))
           THEN "Invalid or missing URL." ELSE ""
      [] a.method = Str("text") ->
           IF ~Truthy(a.text) THEN "Missing text." ELSE ""
      [] OTHER -> "Invalid method. Must be 'url', 'text', or 'path'."

KnowledgeCreatePath(base, a) ==
    IF a.method = Str("url")
    THEN base \o "/users/knowledge_base/" \o ToStr(a.kb_id)
              \o "/knowledge_from_url/"
    ELSE base \o "/users/knowledge_base/" \o ToStr(a.kb_id)
              \o "/knowledge_from_text/"

\* The property set whenever a value was passed, falsy or not.
SetIfSupplied(obj, k, v) == IF v # Undefined THEN Append(obj, <<k, v>>) ELSE obj

\* `if (x) body.x = x`
SetIfTruthy(obj, k, v) == IF Truthy(v) THEN Append(obj, <<k, v>>) ELSE obj

\* The body with the crawl options set ahead of the switch.
KnowledgeCreateBodyAnyMode(a) ==
    LET body ==
            SetIfTruthy(
                SetIfTruthy(
                    SetIfTruthy(<<<<"name", a.name>>>>,
                                "recursion", a.recursion),
                    "max_recursion", a.max_recursion),
                "only_base_url", a.only_base_url)
    IN  IF a.method = Str("url") THEN Append(body, <<"url", a.url>>)
        ELSE Append(body, <<"text", a.text>>)

KnowledgeCreateBody(a) ==
    LET body == <<<<"name", a.name>>>>
    IN  IF a.method = Str("url")
        THEN SetIfTruthy(
                 SetIfTruthy(
                     SetIfTruthy(Append(body, <<"url", a.url>>),
                                 "recursion", a.recursion),
                     "max_recursion", a.max_recursion),
                 "only_base_url", a.only_base_url)
        ELSE Append(body, <<"text", a.text>>)

KnowledgeCreate(c, a) ==
    IF KnowledgeCreateError(a) # ""
    THEN Throw(c, a, "ValidationError", KnowledgeCreateError(a))
    ELSE Fetch(c, a,
               Request("POST", KnowledgeCreatePath(api_url["Knowledge"], a),
                       headers["Knowledge"],
                       JSONstringify(KnowledgeCreateBody(a))))

KnowledgePath(base, knowledge_id) ==
    base \o "/knowledge/" \o ToStr(knowledge_id) \o "/"

KnowledgeGet(c, knowledge_id) ==
    Fetch(c, [NoArgs EXCEPT !.op = "Knowledge.get",
                            !.knowledge_id = knowledge_id],
          Request("GET", KnowledgePath(api_url["Knowledge"], knowledge_id),
                  headers["Knowledge"], <<>>))

KnowledgeDelete(c, knowledge_id) ==
    Fetch(c, [NoArgs EXCEPT !.op = "Knowledge.delete",
                            !.knowledge_id = knowledge_id],
          Request("DELETE", KnowledgePath(api_url["Knowledge"], knowledge_id),
                  headers["Knowledge"], <<>>))

(***************************************************************************)
(* safeFetchCall                                                           *)
(***************************************************************************)
UsesSafeFetchCall(op) ==
    op \in {"KnowledgeBase.create", "KnowledgeBase.get",
            "KnowledgeBase.delete", "Knowledge.create", "Knowledge.get",
            "Knowledge.delete"}

\* safeFetchCall reading the body before it looks at the status.
safeFetchCallReadsAlways(r) == TRUE

\* Whether safeFetchCall goes on to response.json().
safeFetchCallReads(r) == ok(r)

\* The error made from the status code instead of the status text.
safeFetchCallErrorStatus(r) == ReturnError(ToString(r.status))

\* What safeFetchCall returns without reading the body.
safeFetchCallError(r) == ReturnError(r.statusText)

\* `await request` settles: fetch rejected, or resolved with a response.
safeFetchCall(c, r) ==
    /\ pc[c] = "fetch"
    /\ UsesSafeFetchCall(args[c].op)
    /\ response' = [response EXCEPT ![c] = r]
    /\ IF r.type = "error"
       THEN /\ result' = [result EXCEPT ![c] = Reject("TypeError", "fetch failed")]
            /\ pc' = [pc EXCEPT ![c] = "done"]
            /\ UNCHANGED jsonCalls
       ELSE IF safeFetchCallReads(r)
       THEN /\ jsonCalls' = [jsonCalls EXCEPT ![c] = @ + 1]
            /\ pc' = [pc EXCEPT ![c] = "json"]
            /\ UNCHANGED result
       ELSE /\ result' = [result EXCEPT ![c] = safeFetchCallError(r)]
            /\ pc' = [pc EXCEPT ![c] = "done"]
            /\ UNCHANGED jsonCalls
    /\ UNCHANGED <<api_key, headers, api_url, args, sent, unread, observed>>

\* What response.json() settles with: the body read to its end and parsed.
json(r) ==
    LET text == IF r.hasBody THEN Concat(r.chunks) ELSE <<>>
    IN  IF IsJSON(text) THEN ReturnJson(JSONparse(text))
        ELSE Reject("SyntaxError", "Unexpected token")

\* `return await response.json()` settles.
safeFetchCallJson(c) ==
    /\ pc[c] = "json"
    /\ result' = [result EXCEPT ![c] = json(response[c])]
    /\ pc' = [pc EXCEPT ![c] = "done"]
    /\ UNCHANGED <<api_key, headers, api_url, args, sent, response, jsonCalls,
                   unread, observed>>

(***************************************************************************)
(* ReplyClient                                                             *)
(***************************************************************************)
ReplyCreatePath(base) == base \o "/response/"
ReplyStreamPath(base) == base \o "/response_stream/"

ReplyCreateHeaders(h) == [h EXCEPT !.Accept = "application/json"]
ReplyStreamHeaders(h) == [h EXCEPT !.Accept = "text/response-stream"]

\* stream setting Accept on this.headers itself instead of on a copy.
ReplyStreamThisHeadersInPlace(h) == [h EXCEPT !.Accept = "text/response-stream"]

\* this.headers once stream has built its own header set from a copy.
ReplyStreamThisHeaders(h) == h

ReplyCreateBody(a) ==
    SetIfTruthy(
        SetIfTruthy(
            SetIfTruthy(
                SetIfTruthy(
                    SetIfTruthy(<<<<"user_prompt", a.prompt>>>>,
                                "conversation_id", a.conversation_id),
                    "knowledge_base", a.knowledge_base),
                "max_tokens", a.max_tokens),
            "num_results", a.num_results),
        "model", a.model)

ReplyStreamBody(a) ==
    SetIfTruthy(
        SetIfTruthy(
            SetIfTruthy(
                SetIfTruthy(
                    SetIfTruthy(<<<<"user_prompt", a.prompt>>>>,
                                "conversation_id", a.conversation_id),
                    "knowledge_base", a.knowledge_base),
                "max_tokens", a.max_tokens),
            "num_results", a.num_results),
        "model", a.model)

ReplyCreate(c, a) ==
    Fetch(c, a,
          Request("POST", ReplyCreatePath(api_url["Reply"]),
                  ReplyCreateHeaders(headers["Reply"]),
                  JSONstringify(ReplyCreateBody(a))))

ReplyStream(c, a) ==
    /\ pc[c] = "idle"
    /\ args' = [args EXCEPT ![c] = a]
    /\ headers' = [headers EXCEPT !["Reply"] = ReplyStreamThisHeaders(@)]
    /\ sent' = [sent EXCEPT ![c] =
                   Append(@, Request("POST", ReplyStreamPath(api_url["Reply"]),
                                     ReplyStreamHeaders(headers["Reply"]),
                                     JSONstringify(ReplyStreamBody(a))))]
    /\ pc' = [pc EXCEPT ![c] = "fetch"]
    /\ UNCHANGED <<api_key, api_url, response, result, jsonCalls, unread,
                   observed>>

\* create testing the status instead of the body.
ReplyCreateResultStatus(r) ==
    IF ~ok(r) THEN ReturnError("No response body.") ELSE ReturnResponse(r)

\* What create returns for a response.
ReplyCreateResult(r) ==
    IF ~r.hasBody THEN ReturnError("No response body.") ELSE ReturnResponse(r)

\* A wrapper that hands the chunks on last first.
RECURSIVE Reverse(_)
Reverse(q) == IF q = <<>> THEN <<>> ELSE Append(Reverse(Tail(q)), Head(q))
StreamingTextResponseReversed(body) == Response(200, "", TRUE, Reverse(body))

\* new StreamingTextResponse(body): a 200 response around the same stream.
StreamingTextResponse(body) == Response(200, "", TRUE, body)

\* What stream returns for a response.
ReplyStreamResult(r) ==
    IF ~r.hasBody THEN ReturnError("No response body.")
    ELSE ReturnStream(StreamingTextResponse(r.chunks))

\* `await fetch(...)` in create settles.
ReplyCreateSettle(c, r) ==
    /\ pc[c] = "fetch"
    /\ args[c].op = "Reply.create"
    /\ response' = [response EXCEPT ![c] = r]
    /\ result' = [result EXCEPT ![c] =
                     IF r.type = "error" THEN Reject("TypeError", "fetch failed")
                     ELSE ReplyCreateResult(r)]
    /\ pc' = [pc EXCEPT ![c] = "done"]
    /\ UNCHANGED <<api_key, headers, api_url, args, sent, jsonCalls, unread,
                   observed>>

\* `await fetch(...)` in stream settles.
ReplyStreamSettle(c, r) ==
    /\ pc[c] = "fetch"
    /\ args[c].op = "Reply.stream"
    /\ response' = [response EXCEPT ![c] = r]
    /\ result' = [result EXCEPT ![c] =
                     IF r.type = "error" THEN Reject("TypeError", "fetch failed")
                     ELSE ReplyStreamResult(r)]
    /\ unread' = [unread EXCEPT ![c] =
                     IF r.type = "error" THEN <<>>
                     ELSE ReplyStreamResult(r).response.chunks]
    /\ pc' = [pc EXCEPT ![c] = "done"]
    /\ UNCHANGED <<api_key, headers, api_url, args, sent, jsonCalls, observed>>

\* The caller reads the next chunk of the stream it was returned.
StreamRead(c) ==
    /\ pc[c] = "done"
    /\ result[c].type = "StreamingTextResponse"
    /\ unread[c] # <<>>
    /\ observed' = [observed EXCEPT ![c] = Append(@, Head(unread[c]))]
    /\ unread' = [unread EXCEPT ![c] = Tail(@)]
    /\ UNCHANGED <<api_key, headers, api_url, pc, args, sent, response,
                   result, jsonCalls>>

(***************************************************************************)
(* The arguments callers pass.                                             *)
(***************************************************************************)
Optional(S) == {Undefined} \cup S

Ids == {Num(0), Num(42), Num(-1)}
Names == {Str("kb1")}

KnowledgeCreateArgs ==
    {[NoArgs EXCEPT !.op = "Knowledge.create", !.method = Str(m),
                    !.name = Str("doc"), !.kb_id = Num(42), !.url = u,
                    !.text = t, !.recursion = r, !.max_recursion = mr,
                    !.only_base_url = o] :
        m \in {"url", "text", "path"},
        u \in Optional({Str(s) : s \in URLInputs}),
        t \in Optional({Str(""), Str("hello")}),
        r \in Optional({Bool(FALSE), Bool(TRUE)}),
        mr \in Optional({Num(0), Num(10)}),
        o \in Optional({Bool(FALSE), Bool(TRUE)})}

ReplyArgs(op) ==
    {[NoArgs EXCEPT !.op = op, !.prompt = Str("hi"), !.conversation_id = ci,
                    !.knowledge_base = kb, !.max_tokens = mt,
                    !.num_results = nr, !.model = mo] :
        ci \in Optional({Num(0), Num(7)}),
        kb \in Optional({Str(""), Str("kb1")}),
        mt \in Optional({Num(0), Num(256)}),
        nr \in Optional({Num(0), Num(3)}),
        mo \in Optional({Str(""), Str("m1")})}

\* One call site, every argument and every outcome of fetch.
Invoke(c) ==
    /\ pc[c] = "idle"
    /\ \/ \E name \in Names : KnowledgeBaseCreate(c, name)
       \/ \E kb_id \in Ids : KnowledgeBaseGet(c, kb_id)
       \/ \E kb_id \in Ids : KnowledgeBaseDelete(c, kb_id)
       \/ \E a \in KnowledgeCreateArgs : KnowledgeCreate(c, a)
       \/ \E knowledge_id \in Ids : KnowledgeGet(c, knowledge_id)
       \/ \E knowledge_id \in Ids : KnowledgeDelete(c, knowledge_id)
       \/ \E a \in ReplyArgs("Reply.create") : ReplyCreate(c, a)
       \/ \E a \in ReplyArgs("Reply.stream") : ReplyStream(c, a)

\* What was awaited settles, or the caller reads on.
Resume(c) ==
    \/ /\ pc[c] = "fetch"
       /\ \/ \E r \in FetchOutcomes : safeFetchCall(c, r)
          \/ \E r \in FetchOutcomes : ReplyCreateSettle(c, r)
          \/ \E r \in FetchOutcomes : ReplyStreamSettle(c, r)
    \/ safeFetchCallJson(c)
    \/ StreamRead(c)

Next == Invoke(1) \/ Resume(1)

Spec == Init /\ [][Next]_vars

(***************************************************************************)
(* Calls in flight together: every call site, one argument list per        *)
(* operation and a few outcomes of fetch.                                  *)
(***************************************************************************)
SomeOutcomes ==
    {NetworkError,
     Response(200, "OK", TRUE,
              <<SubSeq(JSONstringify(KbDoc), 1, 4),
                SubSeq(JSONstringify(KbDoc), 5, Len(JSONstringify(KbDoc)))>>),
     Response(204, "No Content", FALSE, <<>>),
     Response(404, "Not Found", TRUE, <<JSONstringify(ErrorDoc)>>)}

SomeKnowledgeCreateArgs ==
    {[NoArgs EXCEPT !.op = "Knowledge.create", !.method = Str("url"),
                    !.name = Str("doc"), !.kb_id = Num(42),
                    !.url = Str("https://example.com/docs"),
                    !.recursion = Bool(TRUE)]}

SomeReplyArgs(op) ==
    {[NoArgs EXCEPT !.op = op, !.prompt = Str("hi"), !.max_tokens = Num(256)]}

InvokeSome(c) ==
    /\ pc[c] = "idle"
    /\ \/ KnowledgeBaseCreate(c, Str("kb1"))
       \/ KnowledgeBaseGet(c, Num(42))
       \/ KnowledgeBaseDelete(c, Num(42))
       \/ \E a \in SomeKnowledgeCreateArgs : KnowledgeCreate(c, a)
       \/ KnowledgeGet(c, Num(7))
       \/ KnowledgeDelete(c, Num(7))
       \/ \E a \in SomeReplyArgs("Reply.create") : ReplyCreate(c, a)
       \/ \E a \in SomeReplyArgs("Reply.stream") : ReplyStream(c, a)

ResumeSome(c) ==
    \/ /\ pc[c] = "fetch"
       /\ \/ \E r \in SomeOutcomes : safeFetchCall(c, r)
          \/ \E r \in SomeOutcomes : ReplyCreateSettle(c, r)
          \/ \E r \in SomeOutcomes : ReplyStreamSettle(c, r)
    \/ safeFetchCallJson(c)
    \/ StreamRead(c)

NextConcurrent == \E c \in Calls : InvokeSome(c) \/ ResumeSome(c)

SpecConcurrent == Init /\ [][NextConcurrent]_vars

(***************************************************************************)
(* Properties.                                                             *)
(***************************************************************************)
Props(obj) == {obj[i] : i \in 1..Len(obj)}
Supplied(obj) == {p \in Props(obj) : p[2] # Undefined}

\* Knowledge.create input that is not valid: no usable url in url mode, no
\* text in text mode, or a method that is neither.
InvalidKnowledgeCreate(a) ==
    /\ a.op = "Knowledge.create"
    /\ \/ /\ a.method = Str("url")
          /\ \/ a.url = Undefined
             \/ a.url = Str("")
             \/ a.url.s \notin ParseableURLs
       \/ /\ a.method = Str("text")
          /\ a.text \in {Undefined, Str("")}
       \/ a.method \notin {Str("url"), Str("text")}

\* C1: a Knowledge.create call whose input is invalid is rejected with a
\* ValidationError and has handed no request to fetch, at any point of the
\* call's life.
C1_InvalidCreateIssuesNoRequest ==
    \A c \in Calls :
        (pc[c] # "idle" /\ InvalidKnowledgeCreate(args[c]))
            => /\ sent[c] = <<>>
               /\ pc[c] = "done"
               /\ result[c].state = "rejected"
               /\ result[c].type = "ValidationError"

C1_Witness ==
    \E c \in Calls :
        /\ pc[c] = "done"
        /\ args[c].op = "Knowledge.create"
        /\ args[c].method = Str("url")
        /\ args[c].url = Str("not a url")
        /\ result[c].type = "ValidationError"
        /\ sent[c] = <<>>

\* The fields a creation request must carry and those it may carry.
RequiredFields(a) ==
    CASE a.op = "Knowledge.create" /\ a.method = Str("url") ->
           <<<<"name", a.name>>, <<"url", a.url>>>>
      [] a.op = "Knowledge.create" /\ a.method # Str("url") ->
           <<<<"name", a.name>>, <<"text", a.text>>>>
      [] OTHER -> <<<<"user_prompt", a.prompt>>>>

OptionalFields(a) ==
    CASE a.op = "Knowledge.create" /\ a.method = Str("url") ->
           <<<<"recursion", a.recursion>>,
             <<"max_recursion", a.max_recursion>>,
             <<"only_base_url", a.only_base_url>>>>
      [] a.op = "Knowledge.create" /\ a.method # Str("url") -> <<>>
      [] OTHER ->
           <<<<"conversation_id", a.conversation_id>>,
             <<"knowledge_base", a.knowledge_base>>,
             <<"max_tokens", a.max_tokens>>,
             <<"num_results", a.num_results>>,
             <<"model", a.model>>>>

IsCreation(a) == a.op \in {"Knowledge.create", "Reply.create", "Reply.stream"}

\* C2 as stated: the body of a creation request holds the required fields
\* and exactly the optional fields the caller supplied, whatever their value.
C2_BodyHasExactlySuppliedOptionals ==
    \A c \in Calls :
        (IsCreation(args[c]) /\ sent[c] # <<>>)
            => Props(JSONparse(sent[c][1].body))
                   = Props(RequiredFields(args[c]))
                         \cup Supplied(OptionalFields(args[c]))

\* C2 amended: the body of a creation request holds the required fields and
\* exactly the optional fields the caller supplied with a truthy value; an
\* optional field left out, or supplied as false, 0 or "", is not in it.
C2_BodyHasExactlyTruthyOptionals ==
    \A c \in Calls :
        (IsCreation(args[c]) /\ sent[c] # <<>>)
            => Props(JSONparse(sent[c][1].body))
                   = Props(RequiredFields(args[c]))
                         \cup {p \in Props(OptionalFields(args[c])) :
                                  p[2] \notin {Undefined, Bool(FALSE), Num(0),
                                               Str("")}}

C2_Witness ==
    \E c \in Calls :
        /\ args[c].op = "Reply.create"
        /\ args[c].max_tokens = Num(0)
        /\ args[c].model = Str("m1")
        /\ args[c].conversation_id = Undefined
        /\ sent[c] # <<>>
        /\ HasKey(JSONparse(sent[c][1].body), "model")
        /\ ~HasKey(JSONparse(sent[c][1].body), "max_tokens")
        /\ ~HasKey(JSONparse(sent[c][1].body), "conversation_id")

\* C3: a call whose fetch failed returns an Error value, and the only calls
\* that are rejected are the Knowledge.create calls that failed validation.
C3_FailuresAreReturnedErrors ==
    \A c \in Calls :
        pc[c] = "done"
            => /\ response[c].type = "error"
                    => (result[c].state = "fulfilled" /\ result[c].type = "Error")
               /\ result[c].state = "rejected"
                    => (result[c].type = "ValidationError"
                            /\ args[c].op = "Knowledge.create")

\* C4: a KnowledgeBase or Knowledge call that got a response returns an Error
\* with the response's status text when the status is a failure, and the
\* document of the JSON body, property for property, when it is a success.
C4_ResultFollowsResponse ==
    \A c \in Calls :
        (pc[c] = "done" /\ UsesSafeFetchCall(args[c].op)
            /\ response[c].type = "basic")
            => /\ ~ok(response[c])
                    => result[c] = ReturnError(response[c].statusText)
               /\ \A d \in Docs :
                    (ok(response[c]) /\ response[c].hasBody
                        /\ Concat(response[c].chunks) = JSONstringify(d))
                        => result[c] = ReturnJson(d)

C4_Witness ==
    \E c \in Calls :
        /\ pc[c] = "done"
        /\ args[c].op = "KnowledgeBase.get"
        /\ args[c].kb_id = Num(42)
        /\ response[c].status = 404
        /\ result[c] = ReturnError("Not Found")

C4_WitnessSuccess ==
    \E c \in Calls :
        /\ pc[c] = "done"
        /\ args[c].op = "KnowledgeBase.create"
        /\ response[c].status = 200
        /\ Len(response[c].chunks) = 2
        /\ result[c] = ReturnJson(KbDoc)

IsReply(a) == a.op \in {"Reply.create", "Reply.stream"}

\* C5: a Reply call that got a response returns Error "No response body."
\* exactly when the response has no body, never calls response.json(), and
\* otherwise create returns the response itself and stream returns a stream
\* over that response's body.
C5_NoBodyErrorOrRawResponse ==
    \A c \in Calls :
        (pc[c] = "done" /\ IsReply(args[c]) /\ response[c].type = "basic")
            => /\ result[c] = ReturnError("No response body.")
                    <=> ~response[c].hasBody
               /\ jsonCalls[c] = 0
               /\ response[c].hasBody
                    => IF args[c].op = "Reply.create"
                       THEN result[c] = ReturnResponse(response[c])
                       ELSE /\ result[c].type = "StreamingTextResponse"
                            /\ observed[c] \o unread[c] = response[c].chunks

C5_Witness ==
    \E c \in Calls :
        /\ pc[c] = "done"
        /\ args[c].op = "Reply.create"
        /\ response[c].type = "basic"
        /\ ~response[c].hasBody
        /\ result[c] = ReturnError("No response body.")

C5_WitnessRaw ==
    \E c \in Calls :
        /\ pc[c] = "done"
        /\ args[c].op = "Reply.create"
        /\ response[c].status = 404
        /\ response[c].hasBody
        /\ result[c] = ReturnResponse(response[c])

\* The method and URL each operation is to use.
ApiBase == "https://api.prism-ai.ch"

ExpectedRequest(a) ==
    CASE a.op = "KnowledgeBase.create" ->
           <<"POST", ApiBase \o "/users/knowledge_base/">>
      [] a.op = "KnowledgeBase.get" ->
           <<"GET", ApiBase \o "/users/knowledge_base/" \o ToString(a.kb_id.n)
                        \o "/">>
      [] a.op = "KnowledgeBase.delete" ->
           <<"DELETE", ApiBase \o "/knowledge_base/" \o ToString(a.kb_id.n)
                           \o "/">>
      [] a.op = "Knowledge.create" /\ a.method = Str("url") ->
           <<"POST", ApiBase \o "/users/knowledge_base/"
                         \o ToString(a.kb_id.n) \o "/knowledge_from_url/">>
      [] a.op = "Knowledge.create" /\ a.method = Str("text") ->
           <<"POST", ApiBase \o "/users/knowledge_base/"
                         \o ToString(a.kb_id.n) \o "/knowledge_from_text/">>
      [] a.op = "Knowledge.get" ->
           <<"GET", ApiBase \o "/knowledge/" \o ToString(a.knowledge_id.n)
                        \o "/">>
      [] a.op = "Knowledge.delete" ->
           <<"DELETE", ApiBase \o "/knowledge/" \o ToString(a.knowledge_id.n)
                           \o "/">>
      [] a.op = "Reply.create" -> <<"POST", ApiBase \o "/response/">>
      [] a.op = "Reply.stream" -> <<"POST", ApiBase \o "/response_stream/">>
      [] OTHER -> <<"", "">>

\* C6: a call with valid input has handed exactly one request to fetch, of
\* the method and URL of its operation, from its first step to its last.
C6_ExactlyOneRequest ==
    \A c \in Calls :
        (pc[c] # "idle" /\ ~InvalidKnowledgeCreate(args[c]))
            => /\ Len(sent[c]) = 1
               /\ <<sent[c][1].method, sent[c][1].url>>
                      = ExpectedRequest(args[c])

C6_Witness ==
    \E c \in Calls :
        /\ pc[c] = "done"
        /\ args[c].op = "KnowledgeBase.delete"
        /\ args[c].kb_id = Num(-1)
        /\ response[c].status = 404
        /\ Len(sent[c]) = 1
        /\ sent[c][1].url = "https://api.prism-ai.ch/knowledge_base/-1/"

\* C7: the clients' headers and base URL stay as constructed, and every
\* request carries Content-Type application/json, the credential as
\* Authorization, and Accept text/response-stream from Reply.stream and
\* application/json from every other operation.
C7_ConfigurationIsNeverModified ==
    /\ \A cl \in Clients :
         /\ headers[cl] = [ContentType |-> "application/json",
                           Accept |-> "application/json",
                           Authorization |-> api_key]
         /\ api_url[cl] = ApiBase
    /\ \A c \in Calls : \A i \in 1..Len(sent[c]) :
         /\ sent[c][i].headers.ContentType = "application/json"
         /\ sent[c][i].headers.Authorization = api_key
         /\ sent[c][i].headers.Accept =
                IF args[c].op = "Reply.stream" THEN "text/response-stream"
                ELSE "application/json"

\* A Reply.stream call has settled and been read while another call of the
\* Reply client and one of another client have their requests out.
C7_Witness ==
    \E c1, c2 \in Calls :
        /\ c1 # c2
        /\ args[c1].op = "Reply.stream"
        /\ pc[c1] = "done"
        /\ observed[c1] # <<>>
        /\ args[c2].op \in {"Reply.create", "KnowledgeBase.get"}
        /\ pc[c2] = "fetch"
        /\ sent[c2][1].headers.Accept = "application/json"
        /\ sent[c1][1].headers.Accept = "text/response-stream"

C9_BodyReadOnceWhateverStatus ==
    \A c \in Calls :
        (pc[c] = "done" /\ UsesSafeFetchCall(args[c].op)
            /\ response[c].type = "basic")
            => jsonCalls[c] = 1

\* C9 amended: safeFetchCall never reads a body twice; it has read the body
\* exactly once when the status is a success and not at all when it is a
\* failure.
C9_BodyReadOnceOnSuccessOnly ==
    \A c \in Calls :
        /\ jsonCalls[c] <= 1
        /\ (pc[c] \in {"json", "done"} /\ UsesSafeFetchCall(args[c].op)
               /\ response[c].type = "basic")
             => (jsonCalls[c] = 1 <=> ok(response[c]))

C9_Witness ==
    \E c \in Calls :
        /\ pc[c] = "done"
        /\ UsesSafeFetchCall(args[c].op)
        /\ response[c].status = 404
        /\ response[c].hasBody
        /\ jsonCalls[c] = 0

\* C10: the body Knowledge.create sends holds only the fields of its mode:
\* exactly name and text in text mode, and no text in url mode.
C10_BodyHoldsOnlyModeFields ==
    \A c \in Calls :
        (args[c].op = "Knowledge.create" /\ sent[c] # <<>>)
            => LET body == JSONparse(sent[c][1].body)
               IN  /\ args[c].method = Str("text")
                        => body = <<<<"name", args[c].name>>,
                                    <<"text", args[c].text>>>>
                   /\ args[c].method = Str("url") => ~HasKey(body, "text")

C10_Witness ==
    \E c \in Calls :
        /\ args[c].op = "Knowledge.create"
        /\ args[c].method = Str("text")
        /\ args[c].url = Str("https://example.com/docs")
        /\ args[c].recursion = Bool(TRUE)
        /\ args[c].max_recursion = Num(10)
        /\ args[c].only_base_url = Bool(TRUE)
        /\ sent[c] # <<>>
        /\ JSONparse(sent[c][1].body)
               = <<<<"name", Str("doc")>>, <<"text", Str("hello")>>>>

=============================================================================
